---------------------------- MODULE Spec2Model ----------------------------
(***************************************************************************)
(* A model of markitdown's URI decoders (_uri_utils.py):                   *)
(*   parse_data_uri(uri)    data:[<mediatype>][;base64],<data>             *)
(*   file_uri_to_path(uri)  file: URI -> (netloc, absolute path)           *)
(*                                                                         *)
(* A string is a sequence of one-character strings, a bytes object a       *)
(* sequence of integers 0..255.  An optional value (Python's None) is the  *)
(* empty sequence, a present value x is <<x>>.  All inputs are ASCII.      *)
(* The path functions are the POSIX ones (os.name = 'posix').              *)
(***************************************************************************)
EXTENDS Integers, Sequences, FiniteSets, TLC

VARIABLES uri,      \* the argument of the calls
          cwd,      \* the process's current working directory (os.getcwd())
          calls,    \* number of decoder calls made so far
          outcome,  \* <<>> before the first call, else <<record of the last call>>
          prev      \* the record of the call before the last one, same shape

vars == <<uri, cwd, calls, outcome, prev>>

(***************************************************************************)
(* Bounds of the model.                                                    *)
(***************************************************************************)
MaxSegs == 3      \* header segments of a generated data URI
MaxPayload == 4   \* payload tokens of a generated data URI
MaxRaw == 4       \* tokens of an unstructured input to parse_data_uri
MaxFile == 4      \* tokens after the prefix of an input to file_uri_to_path
MaxTwice == 3     \* tokens after the prefix of a repeatedly decoded input
MaxCalls == 2     \* decoder calls on one input

(***************************************************************************)
(* Python's str and bytes primitives.                                      *)
(***************************************************************************)
None == <<>>
Some(x) == <<x>>

\* printable ASCII, code points 32..126 (92 and 96 stand under a name: neither
\* can be written in a string here)
Ascii ==
  <<" ", "!", "\"", "#", "$", "%", "&", "'", "(", ")", "*", "+", ",", "-", ".", "/",
    "0", "1", "2", "3", "4", "5", "6", "7", "8", "9", ":", ";", "<", "=", ">", "?",
    "@", "A", "B", "C", "D", "E", "F", "G", "H", "I", "J", "K", "L", "M", "N", "O",
    "P", "Q", "R", "S", "T", "U", "V", "W", "X", "Y", "Z", "[", "<backslash>", "]", "^", "_",
    "<backtick>", "a", "b", "c", "d", "e", "f", "g", "h", "i", "j", "k", "l", "m", "n", "o",
    "p", "q", "r", "s", "t", "u", "v", "w", "x", "y", "z", "{", "|", "}", "~">>

Range(s) == {s[i] : i \in DOMAIN s}

\* ord(c) of an ASCII character
Ord(c) == IF c = "\t" THEN 9 ELSE 31 + (CHOOSE i \in DOMAIN Ascii : Ascii[i] = c)

\* chr(b) of a byte below 0x80 (bytes.decode('utf-8') of an ASCII byte)
Chr(b) == IF b = 9 THEN "\t" ELSE Ascii[b - 31]

LowerLetters == <<"a", "b", "c", "d", "e", "f", "g", "h", "i", "j", "k", "l", "m",
                  "n", "o", "p", "q", "r", "s", "t", "u", "v", "w", "x", "y", "z">>
UpperLetters == <<"A", "B", "C", "D", "E", "F", "G", "H", "I", "J", "K", "L", "M",
                  "N", "O", "P", "Q", "R", "S", "T", "U", "V", "W", "X", "Y", "Z">>
Digits == <<"0", "1", "2", "3", "4", "5", "6", "7", "8", "9">>

IsAlpha(c) == c \in Range(LowerLetters) \cup Range(UpperLetters)

\* urllib.parse.scheme_chars
scheme_chars ==
  Range(LowerLetters) \cup Range(UpperLetters) \cup Range(Digits) \cup {"+", "-", "."}

\* c.lower()
lower(c) ==
  IF c \in Range(UpperLetters)
  THEN LowerLetters[CHOOSE i \in DOMAIN UpperLetters : UpperLetters[i] = c]
  ELSE c

\* ''.join(parts)
RECURSIVE Concat(_)
Concat(parts) ==
  IF parts = <<>> THEN <<>> ELSE Head(parts) \o Concat(Tail(parts))

\* sep.join(parts)
RECURSIVE Join(_, _)
Join(parts, sep) ==
  IF parts = <<>> THEN <<>>
  ELSE IF Len(parts) = 1 THEN parts[1]
  ELSE parts[1] \o sep \o Join(Tail(parts), sep)

\* s.startswith(p)
startswith(s, p) == Len(s) >= Len(p) /\ SubSeq(s, 1, Len(p)) = p

\* s.find(c) + 1 for a one-character c: the first index of c in s, 0 when absent
find(s, c) ==
  IF c \in Range(s)
  THEN CHOOSE i \in DOMAIN s : s[i] = c /\ \A j \in 1..(i - 1) : s[j] # c
  ELSE 0

\* s[i:] with a 0-based Python index i
From(s, i) == SubSeq(s, i + 1, Len(s))

\* s.partition(c): <<before, separator, after>>
partition(s, c) ==
  LET i == find(s, c) IN
  IF i = 0 THEN <<s, <<>>, <<>> >>
  ELSE <<SubSeq(s, 1, i - 1), <<c>>, SubSeq(s, i + 1, Len(s))>>

\* s.split(c): at every c, empty pieces kept, never an empty list
RECURSIVE split(_, _)
split(s, c) ==
  LET i == find(s, c) IN
  IF i = 0 THEN <<s>>
  ELSE <<SubSeq(s, 1, i - 1)>> \o split(SubSeq(s, i + 1, Len(s)), c)

HexDigits == <<"0", "1", "2", "3", "4", "5", "6", "7", "8", "9",
               "a", "b", "c", "d", "e", "f", "A", "B", "C", "D", "E", "F">>

IsHex(c) == c \in Range(HexDigits)

HexVal(c) ==
  LET i == CHOOSE k \in DOMAIN HexDigits : HexDigits[k] = c IN
  IF i <= 16 THEN i - 1 ELSE i - 7

\* urllib.parse.unquote_to_bytes: %XX with two hex digits becomes one byte, every
\* other character (a '%' not followed by two hex digits too) its own byte
RECURSIVE unquote_to_bytes(_)
unquote_to_bytes(s) ==
  IF s = <<>> THEN <<>>
  ELSE IF s[1] = "%" /\ Len(s) >= 3 /\ IsHex(s[2]) /\ IsHex(s[3])
       THEN <<16 * HexVal(s[2]) + HexVal(s[3])>> \o unquote_to_bytes(From(s, 3))
       ELSE <<Ord(s[1])>> \o unquote_to_bytes(Tail(s))

\* the standard base64 alphabet, value = index - 1
B64Alphabet ==
  <<"A", "B", "C", "D", "E", "F", "G", "H", "I", "J", "K", "L", "M", "N", "O", "P",
    "Q", "R", "S", "T", "U", "V", "W", "X", "Y", "Z", "a", "b", "c", "d", "e", "f",
    "g", "h", "i", "j", "k", "l", "m", "n", "o", "p", "q", "r", "s", "t", "u", "v",
    "w", "x", "y", "z", "0", "1", "2", "3", "4", "5", "6", "7", "8", "9", "+", "/">>

IsB64(c) == c \in Range(B64Alphabet)

B64Val(c) == (CHOOSE i \in DOMAIN B64Alphabet : B64Alphabet[i] = c) - 1

\* binascii.a2b_base64(s, strict_mode=False), the loop over s from index i on:
\* characters outside the alphabet are skipped, a '=' that completes a quad ends
\* the decoding, and an incomplete last quad is an error (binascii.Error)
RECURSIVE a2b_base64(_, _, _, _, _, _)
a2b_base64(s, i, quad_pos, leftchar, pads, out) ==
  IF i > Len(s)
  THEN IF quad_pos # 0 THEN [ok |-> FALSE, bytes |-> <<>>]
       ELSE [ok |-> TRUE, bytes |-> out]
  ELSE IF s[i] = "="
  THEN IF quad_pos >= 2 /\ quad_pos + pads + 1 >= 4
       THEN [ok |-> TRUE, bytes |-> out]
       ELSE a2b_base64(s, i + 1, quad_pos, leftchar,
                       IF quad_pos >= 2 THEN pads + 1 ELSE pads, out)
  ELSE IF ~IsB64(s[i])
  THEN a2b_base64(s, i + 1, quad_pos, leftchar, pads, out)
  ELSE LET this_ch == B64Val(s[i]) IN
       CASE quad_pos = 0 ->
              a2b_base64(s, i + 1, 1, this_ch, 0, out)
         [] quad_pos = 1 ->
              a2b_base64(s, i + 1, 2, this_ch % 16, 0,
                         Append(out, (leftchar * 4 + this_ch \div 16) % 256))
         [] quad_pos = 2 ->
              a2b_base64(s, i + 1, 3, this_ch % 4, 0,
                         Append(out, (leftchar * 16 + this_ch \div 4) % 256))
         [] OTHER ->
              a2b_base64(s, i + 1, 0, 0, 0,
                         Append(out, (leftchar * 64 + this_ch) % 256))

\* base64.b64decode(s) with validate=False
b64decode(s) == a2b_base64(s, 1, 0, 0, 0, <<>>)

(***************************************************************************)
(* parse_data_uri                                                          *)
(***************************************************************************)
DataPrefix == <<"d", "a", "t", "a", ":">>
Base64Token == <<"b", "a", "s", "e", "6", "4">>

Failure(kind) == [kind |-> kind]

\* a mutant of SetItem: a key already present keeps its first value (setdefault)
SetItem_KeepFirst(attributes, key, value) ==
  IF \E i \in DOMAIN attributes : attributes[i][1] = key
  THEN attributes
  ELSE Append(attributes, <<key, value>>)

\* attributes[key] = value on a dict kept as a sequence of <<key, value>> in
\* insertion order: a key already present keeps its place and takes the new value
SetItem(attributes, key, value) ==
  IF \E i \in DOMAIN attributes : attributes[i][1] = key
  THEN [i \in DOMAIN attributes |->
          IF attributes[i][1] = key THEN <<key, value>> ELSE attributes[i]]
  ELSE Append(attributes, <<key, value>>)

\* the loop "for part in parts" of parse_data_uri, from attributes so far
RECURSIVE Attributes(_, _)
Attributes(parts, attributes) ==
  IF parts = <<>> THEN attributes
  ELSE LET part == Head(parts) IN
       Attributes(Tail(parts),
         IF "=" \in Range(part)
         THEN LET kv == partition(part, "=") IN SetItem(attributes, kv[1], kv[3])
         ELSE IF Len(part) > 0 THEN SetItem(attributes, part, <<>>)
         ELSE attributes)

\* a mutant of PopBase64: the flag compared without regard to case
PopBase64_AnyCase(parts) ==
  IF parts # <<>> /\ [i \in DOMAIN parts[Len(parts)] |-> lower(parts[Len(parts)][i])] = Base64Token
  THEN [parts |-> SubSeq(parts, 1, Len(parts) - 1), is_base64 |-> TRUE]
  ELSE [parts |-> parts, is_base64 |-> FALSE]

\* parts and is_base64 after the trailing "base64" segment is popped
PopBase64(parts) ==
  IF parts # <<>> /\ parts[Len(parts)] = Base64Token
  THEN [parts |-> SubSeq(parts, 1, Len(parts) - 1), is_base64 |-> TRUE]
  ELSE [parts |-> parts, is_base64 |-> FALSE]

\* a mutant of PopMimeType: the leading segment popped even when it is empty
PopMimeType_Unconditional(parts) ==
  IF parts # <<>>
  THEN [parts |-> Tail(parts), mime_type |-> Some(parts[1])]
  ELSE [parts |-> parts, mime_type |-> None]

\* parts and mime_type after the leading segment is popped
PopMimeType(parts) ==
  IF parts # <<>> /\ Len(parts[1]) > 0
  THEN [parts |-> Tail(parts), mime_type |-> Some(parts[1])]
  ELSE [parts |-> parts, mime_type |-> None]

\* a mutant of IsDataUri: the prefix compared without regard to case
IsDataUri_AnyCase(u) == startswith([i \in DOMAIN u |-> lower(u[i])], DataPrefix)

\* uri.startswith("data:")
IsDataUri(u) == startswith(u, DataPrefix)

\* a mutant of SplitUri: the split at the last comma (uri.rpartition(","))
SplitUri_LastComma(u) ==
  IF "," \notin Range(u) THEN <<u, <<>>, <<>> >>
  ELSE LET i == CHOOSE k \in DOMAIN u : u[k] = "," /\ \A j \in (k + 1)..Len(u) : u[j] # ","
       IN <<SubSeq(u, 1, i - 1), <<",">>, SubSeq(u, i + 1, Len(u))>>

\* the header and the payload: uri.partition(",")
SplitUri(u) == partition(u, ",")

\* the content: base64.b64decode(data) if is_base64 else unquote_to_bytes(data)
DecodeContent(is_base64, data) ==
  IF is_base64 THEN b64decode(data)
  ELSE [ok |-> TRUE, bytes |-> unquote_to_bytes(data)]

\* parse_data_uri from "parts = meta.split(';')" on, for the header text meta
\* (after "data:") and the payload text data
ParseMeta(meta, data) ==
  LET b == PopBase64(split(meta, ";"))
      m == PopMimeType(b.parts)
      content == DecodeContent(b.is_base64, data)
  IN IF ~content.ok THEN Failure("InvalidBase64")
     ELSE [kind |-> "ok",
           mime_type |-> m.mime_type,
           attributes |-> Attributes(m.parts, <<>>),
           content |-> content.bytes]

parse_data_uri(u) ==
  IF ~IsDataUri(u) THEN Failure("NotADataURI")
  ELSE LET hd == SplitUri(u) IN
       IF hd[2] = <<>> THEN Failure("MalformedDataURI")
       ELSE ParseMeta(From(hd[1], 5), hd[3])

(***************************************************************************)
(* file_uri_to_path                                                        *)
(***************************************************************************)
\* url.lstrip(_WHATWG_C0_CONTROL_OR_SPACE): of the inputs' characters, tab and space
RECURSIVE lstrip(_)
lstrip(s) ==
  IF s # <<>> /\ s[1] \in {" ", "\t"} THEN lstrip(Tail(s)) ELSE s

\* url.replace(b, "") for every b of _UNSAFE_URL_BYTES_TO_REMOVE: of the inputs'
\* characters, tab
RemoveUnsafe(s) == SelectSeq(s, LAMBDA c : c # "\t")

\* urllib.parse._splitnetloc(url, 2): the authority ends at the first of / ? #
splitnetloc(url) ==
  LET ends == {i \in 3..Len(url) : url[i] \in {"/", "?", "#"}}
      delim == IF ends = {} THEN Len(url) + 1
               ELSE CHOOSE i \in ends : \A j \in ends : i <= j
  IN <<SubSeq(url, 3, delim - 1), SubSeq(url, delim, Len(url))>>

\* the text before the first c, the whole text when c is absent: s.split(c, 1)[0]
Before(s, c) == partition(s, c)[1]

\* urllib.parse.urlsplit (urlparse adds nothing for a scheme outside uses_params).
\* A netloc with both '[' and ']' would go on to _check_bracketed_host; the inputs
\* hold no ']', so that a '[' in the authority is always the unbalanced case.
urlparse(u) ==
  LET url0 == RemoveUnsafe(lstrip(u))
      i == find(url0, ":")
      has_scheme == /\ i > 1
                    /\ IsAlpha(url0[1])
                    /\ \A k \in 1..(i - 1) : url0[k] \in scheme_chars
      scheme == IF has_scheme THEN [k \in 1..(i - 1) |-> lower(url0[k])] ELSE <<>>
      url1 == IF has_scheme THEN From(url0, i) ELSE url0
      has_netloc == startswith(url1, <<"/", "/">>)
      netloc == IF has_netloc THEN splitnetloc(url1)[1] ELSE <<>>
      url2 == IF has_netloc THEN splitnetloc(url1)[2] ELSE url1
      path == Before(Before(url2, "#"), "?")
  IN IF \/ ("[" \in Range(netloc) /\ "]" \notin Range(netloc))
        \/ ("]" \in Range(netloc) /\ "[" \notin Range(netloc))
     THEN [ok |-> FALSE, scheme |-> <<>>, netloc |-> <<>>, path |-> <<>>]
     ELSE [ok |-> TRUE, scheme |-> scheme, netloc |-> netloc, path |-> path]

\* urllib.request.url2pathname on POSIX: unquote(pathname); every escape of the
\* inputs is an ASCII byte, which decodes to its own character
url2pathname(pathname) ==
  LET bytes == unquote_to_bytes(pathname) IN [i \in DOMAIN bytes |-> Chr(bytes[i])]

\* posixpath.isabs
isabs(path) == startswith(path, <<"/">>)

\* posixpath.join(a, b)
join(a, b) ==
  IF startswith(b, <<"/">>) THEN b
  ELSE IF a = <<>> \/ a[Len(a)] = "/" THEN a \o b
  ELSE a \o <<"/">> \o b

\* the loop "for comp in comps" of posixpath.normpath
RECURSIVE NormComps(_, _, _)
NormComps(comps, new_comps, initial_slashes) ==
  IF comps = <<>> THEN new_comps
  ELSE LET comp == Head(comps) IN
       NormComps(Tail(comps),
         IF comp \in {<<>>, <<".">>} THEN new_comps
         ELSE IF \/ comp # <<".", ".">>
                 \/ (initial_slashes = 0 /\ new_comps = <<>>)
                 \/ (new_comps # <<>> /\ new_comps[Len(new_comps)] = <<".", ".">>)
              THEN Append(new_comps, comp)
         ELSE IF new_comps # <<>> THEN SubSeq(new_comps, 1, Len(new_comps) - 1)
         ELSE new_comps,
         initial_slashes)

\* posixpath.normpath
normpath(path) ==
  IF path = <<>> THEN <<".">>
  ELSE LET initial_slashes ==
             IF ~startswith(path, <<"/">>) THEN 0
             ELSE IF startswith(path, <<"/", "/">>) /\ ~startswith(path, <<"/", "/", "/">>)
                  THEN 2 ELSE 1
           joined == Join(NormComps(split(path, "/"), <<>>, initial_slashes), <<"/">>)
           res == [k \in 1..initial_slashes |-> "/"] \o joined
       IN IF res = <<>> THEN <<".">> ELSE res

\* a mutant of abspath: the working directory put before every path
abspath_AlwaysJoin(path, dir) == normpath(dir \o <<"/">> \o path)

\* posixpath.abspath, with os.getcwd() = dir
abspath(path, dir) ==
  normpath(IF isabs(path) THEN path ELSE join(dir, path))

FileScheme == <<"f", "i", "l", "e">>

\* a mutant of file_uri_to_path: parsed.netloc returned as it is, empty or not
file_uri_to_path_RawNetloc(u, dir) ==
  LET parsed == urlparse(u) IN
  IF ~parsed.ok THEN Failure("InvalidIPv6URL")
  ELSE IF parsed.scheme # FileScheme THEN Failure("InvalidScheme")
  ELSE [kind |-> "ok",
        netloc |-> Some(parsed.netloc),
        path |-> abspath(url2pathname(parsed.path), dir)]

file_uri_to_path(u, dir) ==
  LET parsed == urlparse(u) IN
  IF ~parsed.ok THEN Failure("InvalidIPv6URL")
  ELSE IF parsed.scheme # FileScheme THEN Failure("InvalidScheme")
  ELSE [kind |-> "ok",
        netloc |-> IF parsed.netloc # <<>> THEN Some(parsed.netloc) ELSE None,
        path |-> abspath(url2pathname(parsed.path), dir)]

(***************************************************************************)
(* The inputs: strings built from tokens, within the bounds.               *)
(***************************************************************************)
SeqsUpTo(S, n) == UNION {[1..k -> S] : k \in 0..n}

\* the concatenations of at most n tokens of S
Words(S, n) == {Concat(w) : w \in SeqsUpTo(S, n)}

\* header segments: empty, bare, key=value with an empty side or a second '=',
\* the base64 flag and its upper-case spelling
Segments ==
  {<<>>, <<"a">>, <<"a", "=", "b">>, <<"a", "=">>, <<"=", "b">>,
   <<"a", "=", "b", "=", "c">>, Base64Token, <<"B", "A", "S", "E", "6", "4">>}

\* payloads of the header inputs: empty, base64 of "A", a comma and an escape
HeaderPayloads == {<<>>, <<"Q", "Q", "=", "=">>, <<",", "%", "4", "1">>}

\* data URIs with up to MaxSegs header segments
HeaderInputs ==
  {DataPrefix \o Join(segs, <<";">>) \o <<",">> \o p :
     segs \in SeqsUpTo(Segments, MaxSegs), p \in HeaderPayloads}

PayloadHeaders == {<<>>, <<";">> \o Base64Token}

PayloadTokens == {<<"Q">>, <<"=">>, <<"!">>, <<",">>, <<"%", "4">>, <<"1">>}

\* data URIs with up to MaxPayload payload tokens, plain and base64
PayloadInputs ==
  {DataPrefix \o h \o <<",">> \o p :
     h \in PayloadHeaders, p \in Words(PayloadTokens, MaxPayload)}

RawTokens ==
  {DataPrefix, <<"d", "a", "t">>, <<"D", "A", "T", "A", ":">>, <<",">>, <<";">>, <<"a">>}

\* arbitrary strings, with and without the prefix and the comma
RawInputs == Words(RawTokens, MaxRaw)

DataInputs == HeaderInputs \cup PayloadInputs \cup RawInputs

FilePrefixes ==
  {<<"f", "i", "l", "e", ":">>, <<"F", "i", "l", "e", ":">>, <<"f", "i", "l", "e">>,
   <<"h", "t", "t", "p", ":">>, <<" ", "f", "i", "l", "e", ":">>}

FileTokens ==
  {<<"/">>, <<"a">>, <<".", ".">>, <<"%", "2", "F">>, <<"[">>, <<"?">>, <<"#">>, <<"\t">>}

FileInputs == {p \o w : p \in FilePrefixes, w \in Words(FileTokens, MaxFile)}

TwiceTokens == {<<"/">>, <<"a">>, <<".", ".">>, <<"%", "2", "F">>, <<",">>}

TwiceInputs ==
  {p \o w : p \in {<<"f", "i", "l", "e", ":">>, <<"h", "t", "t", "p", ":">>, DataPrefix},
            w \in Words(TwiceTokens, MaxTwice)}

\* working directories of the process
Dirs == {<<"/">>, <<"/", "w">>}

(***************************************************************************)
(* The calls.                                                              *)
(***************************************************************************)
\* the record of one call: the function, the working directory it ran in, its
\* result or failure
Call(fn, dir, res) == [fn |-> fn, cwd |-> dir, res |-> res]

\* a caller decodes uri as a data URI
ParseDataUri ==
  /\ calls < MaxCalls
  /\ outcome' = Some(Call("parse_data_uri", cwd, parse_data_uri(uri)))
  /\ prev' = outcome
  /\ calls' = calls + 1
  /\ UNCHANGED <<uri, cwd>>

\* a caller decodes uri as a file URI
FileUriToPath ==
  /\ calls < MaxCalls
  /\ outcome' = Some(Call("file_uri_to_path", cwd, file_uri_to_path(uri, cwd)))
  /\ prev' = outcome
  /\ calls' = calls + 1
  /\ UNCHANGED <<uri, cwd>>

\* the process changes its working directory (os.chdir) between two calls
Chdir ==
  /\ \E d \in Dirs : d # cwd /\ cwd' = d
  /\ UNCHANGED <<uri, calls, outcome, prev>>

InitCalls == calls = 0 /\ outcome = None /\ prev = None

\* parse_data_uri, called once on each input
InitData == uri \in DataInputs /\ cwd = <<"/", "w">> /\ InitCalls
NextData == calls = 0 /\ ParseDataUri
SpecData == InitData /\ [][NextData]_vars

\* file_uri_to_path, called once on each input in each working directory
InitFile == uri \in FileInputs /\ cwd \in Dirs /\ InitCalls
NextFile == calls = 0 /\ FileUriToPath
SpecFile == InitFile /\ [][NextFile]_vars

\* both decoders, called up to MaxCalls times on one input while the working
\* directory changes
Init == uri \in TwiceInputs /\ cwd \in Dirs /\ InitCalls
Next == ParseDataUri \/ FileUriToPath \/ Chdir
Spec == Init /\ [][Next]_vars

(***************************************************************************)
(* The vocabulary of the claims, read off the input string itself.         *)
(***************************************************************************)
DataDone == outcome # None /\ outcome[1].fn = "parse_data_uri"
FileDone == outcome # None /\ outcome[1].fn = "file_uri_to_path"
Res == outcome[1].res

Last(s) == s[Len(s)]
ButLast(s) == SubSeq(s, 1, Len(s) - 1)

\* the input starts with the literal data:
HasDataPrefix(u) == Len(u) >= 5 /\ \A i \in 1..5 : u[i] = DataPrefix[i]

HasComma(u) == \E i \in DOMAIN u : u[i] = ","

\* the first comma, scanning left to right
FirstComma(u) == CHOOSE i \in DOMAIN u : u[i] = "," /\ \A j \in 1..(i - 1) : u[j] # ","

\* the text between data: and the first comma, and the text after that comma
HeaderOf(u) == SubSeq(u, 6, FirstComma(u) - 1)
PayloadOf(u) == SubSeq(u, FirstComma(u) + 1, Len(u))

\* the header's segments, and those left once a trailing base64 flag is removed
SegmentsOf(u) == split(HeaderOf(u), ";")
Flagged(u) == Last(SegmentsOf(u)) = Base64Token
Unflagged(u) == IF Flagged(u) THEN ButLast(SegmentsOf(u)) ELSE SegmentsOf(u)

\* the segments left for the attributes of result r: those after the flag's
\* removal, less the first one when it was taken as r's mime_type
RemainingOf(u, r) ==
  IF r.mime_type = None THEN Unflagged(u) ELSE Tail(Unflagged(u))

\* a segment's key (the text before its first '=', all of it without one) and
\* value (the text after its first '=', empty without one)
KeyOf(seg) == IF "=" \in Range(seg) THEN SubSeq(seg, 1, find(seg, "=") - 1) ELSE seg
ValOf(seg) == IF "=" \in Range(seg) THEN SubSeq(seg, find(seg, "=") + 1, Len(seg)) ELSE <<>>

Keys(attributes) == {attributes[n][1] : n \in DOMAIN attributes}

\* well-formed standard base64: alphabet characters in quads, the last one
\* padded with at most two '='
WellFormedBase64(p) ==
  /\ Len(p) % 4 = 0
  /\ \E n \in 0..2 :
       /\ n <= Len(p)
       /\ \A i \in 1..(Len(p) - n) : IsB64(p[i])
       /\ \A i \in (Len(p) - n + 1)..Len(p) : p[i] = "="

(***************************************************************************)
(* The claims about parse_data_uri, under SpecData.                        *)
(***************************************************************************)

\* C1: when the first header segment left after the base64 flag is removed
\* contains '=', the result has no mime_type and the segment's key is an
\* attribute key.  (The code takes every non-empty first segment as mime_type.)
C1_EqualsSegmentIsAttribute ==
  (DataDone /\ Res.kind = "ok") =>
    LET segs == Unflagged(uri) IN
    (segs # <<>> /\ "=" \in Range(segs[1])) =>
      /\ Res.mime_type = None
      /\ KeyOf(segs[1]) \in Keys(Res.attributes)

\* C2: with the base64 flag set, a payload that is not well-formed standard
\* base64 makes parse_data_uri fail with InvalidBase64.  (The code's decoder
\* skips characters outside the alphabet and stops at the first full padding.)
C2_MalformedBase64Fails ==
  (DataDone /\ HasDataPrefix(uri) /\ HasComma(uri)) =>
    ((Flagged(uri) /\ ~WellFormedBase64(PayloadOf(uri))) => Res.kind = "InvalidBase64")

\* C3: parse_data_uri fails with NotADataURI exactly when the input does not
\* start with data: (comma or not), with MalformedDataURI exactly when it does
\* and holds no comma, and a failure carries nothing but its kind.
C3_PrefixThenComma ==
  DataDone =>
    /\ (Res.kind = "NotADataURI") <=> ~HasDataPrefix(uri)
    /\ (Res.kind = "MalformedDataURI") <=> (HasDataPrefix(uri) /\ ~HasComma(uri))
    /\ (Res.kind \in {"NotADataURI", "MalformedDataURI"}) => DOMAIN Res = {"kind"}

\* C3's case: an input without the prefix but with a comma is NotADataURI
C3_Witness ==
  DataDone /\ ~HasDataPrefix(uri) /\ HasComma(uri) /\ Res.kind = "NotADataURI"

\* C4: an input with the prefix and a comma is split at its first comma: the
\* header is the text between data: and that comma, the payload all the text
\* after it, further commas included, and the result is the one decoded from
\* that header and that payload.
C4_SplitAtFirstComma ==
  (DataDone /\ HasDataPrefix(uri) /\ HasComma(uri)) =>
    /\ ~HasComma(HeaderOf(uri))
    /\ uri = DataPrefix \o HeaderOf(uri) \o <<",">> \o PayloadOf(uri)
    /\ Res = ParseMeta(HeaderOf(uri), PayloadOf(uri))
    /\ (Res.kind = "ok" /\ ~Flagged(uri)) =>
         Res.content = unquote_to_bytes(PayloadOf(uri))

\* C4's case: the payload holds a further comma, which is a byte of the content
C4_Witness ==
  /\ DataDone /\ HasDataPrefix(uri) /\ HasComma(uri)
  /\ HasComma(PayloadOf(uri)) /\ HeaderOf(uri) # <<>>
  /\ Res.kind = "ok" /\ 44 \in Range(Res.content)

\* C5: the payload is base64-decoded if and only if the last header segment is
\* exactly base64; that segment is then neither mime_type nor an attribute key
\* (header base64 alone: no mime_type, no attributes); without the flag the
\* payload is percent-decoded; flag or not, every other segment is kept as an
\* ordinary one, a base64 in another place or another case too.
C5_Base64FlagIsLastSegment ==
  (DataDone /\ HasDataPrefix(uri) /\ HasComma(uri)) =>
    LET segs == SegmentsOf(uri)
        kept == Unflagged(uri)
        decoded == b64decode(PayloadOf(uri))
    IN /\ Flagged(uri) =>
            /\ Res.kind = IF decoded.ok THEN "ok" ELSE "InvalidBase64"
            /\ Res.kind = "ok" =>
                 /\ Res.content = decoded.bytes
                 /\ (Base64Token \notin Range(kept)) =>
                      /\ Res.mime_type # Some(Base64Token)
                      /\ Base64Token \notin Keys(Res.attributes)
                 /\ (segs = <<Base64Token>>) =>
                      (Res.mime_type = None /\ Res.attributes = <<>>)
       /\ ~Flagged(uri) =>
            /\ Res.kind = "ok"
            /\ Res.content = unquote_to_bytes(PayloadOf(uri))
       /\ Res.kind = "ok" =>
            \A i \in DOMAIN kept :
              (kept[i] # <<>> /\ "=" \notin Range(kept[i])) =>
                IF i = 1 THEN Res.mime_type = Some(kept[i])
                ELSE kept[i] \in Keys(Res.attributes)

\* C5's case: base64 in a place that is not the last one, and no flag
C5_Witness ==
  /\ DataDone /\ HasDataPrefix(uri) /\ HasComma(uri)
  /\ ~Flagged(uri) /\ Len(SegmentsOf(uri)) >= 3 /\ SegmentsOf(uri)[2] = Base64Token
  /\ PayloadOf(uri) = <<"Q", "Q", "=", "=">>
  /\ Res.kind = "ok" /\ Res.content = <<81, 81, 61, 61>>
  /\ Base64Token \in Keys(Res.attributes)

\* C6: the attributes are those of the segments left after the flag and the
\* mime_type, in declaration order: a segment with '=' is split on its first
\* '=', a non-empty one without '=' maps to the empty string, an empty one adds
\* nothing, and of a repeated key the last occurrence's value stands.
C6_AttributesLastWriteWins ==
  (DataDone /\ Res.kind = "ok") =>
    LET rest == RemainingOf(uri, Res)
        attrs == Res.attributes
        live == {i \in DOMAIN rest : rest[i] # <<>>}
        lasts == {i \in live : \A j \in live : j > i => KeyOf(rest[j]) # KeyOf(rest[i])}
        first(k) == CHOOSE i \in live :
                      KeyOf(rest[i]) = k /\ \A j \in live : KeyOf(rest[j]) = k => i <= j
    IN /\ Range(attrs) = {<<KeyOf(rest[i]), ValOf(rest[i])>> : i \in lasts}
       /\ \A m, n \in DOMAIN attrs : attrs[m][1] = attrs[n][1] => m = n
       /\ \A m, n \in DOMAIN attrs : m < n => first(attrs[m][1]) < first(attrs[n][1])

\* C6's case: a key given twice with two values, and a value holding a '='
C6_Witness ==
  /\ DataDone /\ Res.kind = "ok"
  /\ RemainingOf(uri, Res) = << <<"a", "=", "b", "=", "c">>, <<"a">> >>
  /\ Res.attributes = << <<(<<"a">>), <<>> >> >>

\* C10: a mime_type is absent or a non-empty string without ';' and ','; after
\* an empty first header segment it is absent, and every later bare segment is
\* an attribute key (with the empty value, unless the key is given again).
C10_MimeTypeNonEmptyOrAbsent ==
  (DataDone /\ Res.kind = "ok") =>
    LET segs == Unflagged(uri) IN
    /\ Res.mime_type # None =>
         /\ Res.mime_type[1] # <<>>
         /\ ";" \notin Range(Res.mime_type[1])
         /\ "," \notin Range(Res.mime_type[1])
    /\ (segs = <<>> \/ segs[1] = <<>>) =>
         /\ Res.mime_type = None
         /\ \A i \in DOMAIN segs :
              (segs[i] # <<>> /\ "=" \notin Range(segs[i])) =>
                /\ segs[i] \in Keys(Res.attributes)
                /\ (\A j \in DOMAIN segs : j > i => KeyOf(segs[j]) # segs[i]) =>
                     <<segs[i], <<>> >> \in Range(Res.attributes)

\* C10's case: an empty first segment followed by a bare one
C10_Witness ==
  /\ DataDone /\ Res.kind = "ok"
  /\ Unflagged(uri) = << <<>>, <<"a">> >>
  /\ Res.mime_type = None
  /\ Res.attributes = << <<(<<"a">>), <<>> >> >>

(***************************************************************************)
(* The vocabulary of the claims about file URIs.                           *)
(***************************************************************************)
\* the URI as urlsplit reads it: leading blanks and every tab taken out
Cleaned(u) == SelectSeq(lstrip(u), LAMBDA c : c # "\t")

\* the scheme of text c: the text before its first ':' in lower case, when that
\* is a letter followed by scheme characters; empty otherwise
SchemeOf(c) ==
  LET k == find(c, ":") IN
  IF k > 1 /\ IsAlpha(c[1]) /\ \A i \in 1..(k - 1) : c[i] \in scheme_chars
  THEN [i \in 1..(k - 1) |-> lower(c[i])]
  ELSE <<>>

\* the text after the scheme's ':'
AfterScheme(c) == SubSeq(c, find(c, ":") + 1, Len(c))

\* an authority is present when the text after the scheme starts with //; it
\* runs to the first / ? or #
HasAuthority(t) == Len(t) >= 2 /\ t[1] = "/" /\ t[2] = "/"

AuthorityEnd(t) ==
  IF \E i \in 3..Len(t) : t[i] \in {"/", "?", "#"}
  THEN CHOOSE i \in 3..Len(t) :
         t[i] \in {"/", "?", "#"} /\ \A j \in 3..(i - 1) : t[j] \notin {"/", "?", "#"}
  ELSE Len(t) + 1

AuthorityOf(t) == IF HasAuthority(t) THEN SubSeq(t, 3, AuthorityEnd(t) - 1) ELSE <<>>

\* the path component: the text after the authority, up to the first ? or #
PathOf(t) ==
  LET p == IF HasAuthority(t) THEN SubSeq(t, AuthorityEnd(t), Len(t)) ELSE t
      ends == {i \in DOMAIN p : p[i] \in {"?", "#"}}
  IN IF ends = {} THEN p
     ELSE SubSeq(p, 1, (CHOOSE i \in ends : \A j \in ends : i <= j) - 1)

\* network_location and path as the claim C9 gives them for the text t after
\* the scheme, decoded in working directory dir
LocationOf(t) == IF AuthorityOf(t) # <<>> THEN Some(AuthorityOf(t)) ELSE None
LocalPathOf(t, dir) == abspath(url2pathname(PathOf(t)), dir)

(***************************************************************************)
(* The claims about file_uri_to_path, under SpecFile.                      *)
(***************************************************************************)

\* C8: file_uri_to_path fails with InvalidScheme if and only if the URI's scheme
\* is not file, the failure carries no (network_location, path) pair, and every
\* input whose scheme is file yields a result.  (urlparse rejects an authority
\* with an unmatched '[' before the scheme is looked at.)
C8_InvalidSchemeIffNotFile ==
  FileDone =>
    /\ (Res.kind = "InvalidScheme") <=> (SchemeOf(Cleaned(uri)) # FileScheme)
    /\ (Res.kind = "InvalidScheme") => DOMAIN Res = {"kind"}
    /\ (SchemeOf(Cleaned(uri)) = FileScheme) => Res.kind = "ok"

\* C9, as stated: of an accepted file: URI the network_location is the
\* authority component verbatim, as it stands in the input, when it is present
\* and non-empty, and None when the URI has no authority or an empty one.
C9_AuthorityVerbatim ==
  (FileDone /\ Res.kind = "ok") =>
    Res.netloc = LocationOf(AfterScheme(uri))

\* C9, amended: of an accepted file: URI the network_location is the authority
\* component of the URI with its leading blanks and all its tabs removed, when
\* that is non-empty, and None (never the empty string) otherwise; the path is
\* decoded from that URI's path component alone.
C9_AuthorityOfCleanedUri ==
  (FileDone /\ Res.kind = "ok") =>
    /\ Res.netloc = LocationOf(AfterScheme(Cleaned(uri)))
    /\ Res.netloc # Some(<<>>)
    /\ Res.path = LocalPathOf(AfterScheme(Cleaned(uri)), outcome[1].cwd)

\* C9's case: an authority is present, and it is not part of the path
C9_Witness ==
  /\ FileDone /\ Res.kind = "ok"
  /\ HasAuthority(AfterScheme(uri))
  /\ Res.netloc = Some(<<"a">>)
  /\ PathOf(AfterScheme(uri)) = <<"/">>
  /\ Res.path = <<"/">>
  /\ outcome[1].cwd = <<"/", "w">>

(***************************************************************************)
(* The claim about repeated calls, under Spec.                             *)
(***************************************************************************)
\* the last two calls were calls of the same decoder (on the same input)
SameCallTwice == outcome # None /\ prev # None /\ outcome[1].fn = prev[1].fn

\* the path of the URI, percent-decoded
DecodedPathOf(u) == url2pathname(PathOf(AfterScheme(Cleaned(u))))

=============================================================================
